---- MODULE Spec2Model ----
(***************************************************************************)
(* drawille-rs: the block (half-block, coloured) canvas of src/block.rs,   *)
(* the Braille canvas and the Turtle of src/braille.rs, and the line       *)
(* rasterizer both canvases carry.                                         *)
(*                                                                         *)
(* A HashMap<(usize, usize), V> is a function whose DOMAIN is the set of   *)
(* keys present.  A String is the sequence of its characters; the Braille  *)
(* canvas' characters are code points.  A panic ends the run: the state it *)
(* leaves behind is what an unwinding caller (or a Drop) observes.         *)
(* The Turtle's f32 coordinates are fixed-point numbers counted in halves  *)
(* (3 is 1.5), so that f32::round is not the identity; headings are whole  *)
(* multiples of 90 degrees, whose sine and cosine are taken as exact.      *)
(***************************************************************************)
EXTENDS Integers, Sequences, FiniteSets, TLC

VARIABLES kind, blocks, chars, width, height, last, nops, hi,
          tx, ty, brush, rotation, ends, bvec, dvec, rvec

vars == <<kind, blocks, chars, width, height, last, nops, hi,
          tx, ty, brush, rotation, ends, bvec, dvec, rvec>>

\* ------------------------------------------------------------------ bounds
\* Largest pixel x and y an operation of the Braille canvas is given.
MaxX == 2
MaxY == 4
\* Largest pixel x and y an operation of the block canvas is given.
MaxBX == 1
MaxBY == 2
\* A line's endpoint coordinates in the canvas specification are 0 or MaxLine.
MaxLine == 1
\* Largest pixel width and height given to Canvas::new.
MaxW == 2
MaxH == 4
\* Longest string given to text().
MaxText == 1
\* Number of operations in one run.
MaxOps == 2
\* Largest endpoint coordinate in the rasterizer specification.
MaxCoord == 3
\* teleport() is given coordinates, in halves, in -MaxPos..MaxPos.
MaxPos == 2
\* A Turtle starts at coordinates, in halves, in -MaxStart..MaxStart.
MaxStart == 1
\* forward() and back() are given distances, in halves, in -MaxDist..MaxDist.
MaxDist == 2
\* right() and left() are given 90, 180, ... 90 * MaxTurn degrees.
MaxTurn == 1
\* Largest cell width/height given to Turtle::width / Turtle::height.
MaxCells == 1

\* --------------------------------------------------------------- utilities
Max(a, b) == IF a >= b THEN a ELSE b
Min(a, b) == IF a <= b THEN a ELSE b
Abs(a) == IF a < 0 THEN -a ELSE a
Range(s) == {s[i] : i \in 1..Len(s)}

\* Iterator::max().unwrap_or(0) over a set of usize
SetMax(S) ==
  IF S = {} THEN 0
  ELSE LET e == CHOOSE e \in S : \A o \in S : o <= e IN e

RECURSIVE FlattenFrom(_, _, _)
\* String::push_str of ss[i], ..., ss[n] in turn
FlattenFrom(ss, i, n) == IF i > n THEN <<>> ELSE ss[i] \o FlattenFrom(ss, i + 1, n)

RECURSIVE JoinFrom(_, _, _, _)
\* [String]::connect(sep)
JoinFrom(ss, sep, i, n) ==
  IF i > n THEN <<>>
  ELSE IF i = n THEN ss[i]
  ELSE ss[i] \o sep \o JoinFrom(ss, sep, i + 1, n)
Join(ss, sep) == JoinFrom(ss, sep, 1, Len(ss))

\* HashMap::new() / HashMap::clear()
HashMapKeep(m) == m
HashMapClear(m) == [k \in {} |-> 0]
EmptyMap == [k \in {} |-> 0]
\* entry(k) = v / insert
Put(m, k, v) == [j \in (DOMAIN m) \cup {k} |-> IF j = k THEN v ELSE m[j]]

\* ------------------------------------------------------------------ colours
Black == 0
Red == 1
Green == 2
Yellow == 3
Blue == 4
Magenta == 5
Cyan == 6
White == 7
Color == {Black, Red, Green, Yellow, Blue, Magenta, Cyan, White}
\* the colours the operations of a run are given
Palette == {Black, Red}

\* `c as u32` formatted with {}
Digit(c) == <<"0", "1", "2", "3", "4", "5", "6", "7">>[c + 1]

\* ColorPair(first, second) and its Display
ColorPair(first, second) == [first |-> first, second |-> second]
ColorPairFmt(cp) ==
  <<"ESC", "[", "0", ";", "4", Digit(cp.first), "m">>
  \o <<"ESC", "[", "3", Digit(cp.second), "m">>

\* enum Pixel
PixelChar(cp, ch) == [tag |-> "Char", cp |-> cp, ch |-> ch]
PixelPair(cp) == [tag |-> "Pair", cp |-> cp]
PixelDefault == PixelChar(ColorPair(Black, Black), " ")
PixelFmt(p) ==
  IF p.tag = "Char" THEN ColorPairFmt(p.cp) \o <<p.ch>>
  ELSE ColorPairFmt(p.cp) \o <<"LOWER HALF BLOCK">>

\* Pixel::index / Index / IndexMut panic on a text pixel, and on an index
\* other than 0 and 1
PixelIndexPanics(p, index) == p.tag # "Pair" \/ index \notin {0, 1}
PixelIndex(p, index) == IF index = 0 THEN p.cp.first ELSE p.cp.second
\* block[index] = c through IndexMut, on a Pair
PixelIndexSet(p, index, c) ==
  IF index = 0 THEN PixelPair(ColorPair(c, p.cp.second))
  ELSE PixelPair(ColorPair(p.cp.first, c))

\* Canvas::new of both canvases
CanvasNew(w, h) == [width |-> w \div 2, height |-> h \div 4]

\* ------------------------------------------------------------ block canvas
\* Canvas::set: the map after set(x, y, c)
BlockSetMap(m, x, y, c) ==
  LET key == <<x, y \div 2>>
      m1 == IF key \in DOMAIN m THEN m ELSE Put(m, key, PixelDefault)
      m2 == IF m1[key].tag = "Char"
            THEN Put(m1, key, PixelPair(ColorPair(Black, Black)))
            ELSE m1
  IN  Put(m2, key, PixelIndexSet(m2[key], y % 2, c))

\* Canvas::unset: the entry is inserted first, then indexed mutably
BlockUnsetEntry(m, x, y) ==
  LET key == <<x, y \div 2>>
  IN  IF key \in DOMAIN m THEN m ELSE Put(m, key, PixelDefault)
BlockUnsetPanics(m, x, y) ==
  PixelIndexPanics(BlockUnsetEntry(m, x, y)[<<x, y \div 2>>], y % 2)
BlockUnsetMap(m, x, y) ==
  LET key == <<x, y \div 2>>
      m1 == BlockUnsetEntry(m, x, y)
  IN  IF BlockUnsetPanics(m, x, y) THEN m1
      ELSE Put(m1, key, PixelIndexSet(m1[key], y % 2, Black))

\* Canvas::get: (col, row) = (x, y / 2), looked up as (row, col)
BlockGetPanics(m, x, y) ==
  LET col == x
      row == y \div 2
  IN  <<row, col>> \in DOMAIN m /\ PixelIndexPanics(m[<<row, col>>], y % 2)
BlockGetValue(m, x, y) ==
  LET col == x
      row == y \div 2
  IN  IF <<row, col>> \notin DOMAIN m THEN Black
      ELSE PixelIndex(m[<<row, col>>], y % 2)

RECURSIVE BlockTextMap(_, _, _, _, _, _, _)
\* Canvas::text: character i of s goes to cell (x + i, y / 2)
BlockTextMap(m, x, y, fg, bg, s, i) ==
  IF i >= Len(s) THEN m
  ELSE BlockTextMap(Put(m, <<x + i, y \div 2>>,
                        PixelChar(ColorPair(bg, fg), s[i + 1])),
                    x, y, fg, bg, s, i + 1)

\* Canvas::rows: the cells of each row, then the strings
\* a rendering that keeps to the configured width
BlockMaxRowConfigured(m, w) == w
BlockMaxRow(m, w) == Max(w, SetMax({k[1] : k \in DOMAIN m}))
BlockMaxCol(m, h) == Max(h, SetMax({k[2] : k \in DOMAIN m}))
BlockRowCells(m, w, h) ==
  [y \in 1..(BlockMaxCol(m, h) + 1) |->
     [x \in 1..(BlockMaxRow(m, w) + 1) |->
        IF <<x - 1, y - 1>> \in DOMAIN m THEN m[<<x - 1, y - 1>>]
        ELSE PixelDefault]]
BlockRows(m, w, h) ==
  LET cells == BlockRowCells(m, w, h)
      maxrow == BlockMaxRow(m, w)
      maxcol == BlockMaxCol(m, h)
  IN  [y \in 1..(maxcol + 1) |->
         FlattenFrom([x \in 1..(maxrow + 1) |-> PixelFmt(cells[y][x])],
                     1, maxrow + 1)
         \o <<"ESC", "[", "0", "m">>]
BlockFrame(m, w, h) == Join(BlockRows(m, w, h), <<"\n">>)

\* Canvas::line_vec of block.rs
BlockLineVecRounds(x1, y1, x2, y2) ==
  LET xdiff == Max(x1, x2) - Min(x1, x2)
      ydiff == Max(y1, y2) - Min(y1, y2)
      xdir == IF x1 <= x2 THEN 1 ELSE -1
      ydir == IF y1 <= y2 THEN 1 ELSE -1
      r == Max(xdiff, ydiff)
  IN  [j \in 1..(r + 1) |->
         LET i == j - 1
             y == IF ydiff # 0 THEN y1 + ((2 * i * ydiff + r) \div (2 * r)) * ydir
                  ELSE y1
             x == IF xdiff # 0 THEN x1 + ((2 * i * xdiff + r) \div (2 * r)) * xdir
                  ELSE x1
         IN  <<x, y>>]
BlockLineVec(x1, y1, x2, y2) ==
  LET xdiff == Max(x1, x2) - Min(x1, x2)
      ydiff == Max(y1, y2) - Min(y1, y2)
      xdir == IF x1 <= x2 THEN 1 ELSE -1
      ydir == IF y1 <= y2 THEN 1 ELSE -1
      r == Max(xdiff, ydiff)
  IN  [j \in 1..(r + 1) |->
         LET i == j - 1
             y == IF ydiff # 0 THEN y1 + ((i * ydiff) \div r) * ydir ELSE y1
             x == IF xdiff # 0 THEN x1 + ((i * xdiff) \div r) * xdir ELSE x1
         IN  <<x, y>>]

RECURSIVE BlockSetAll(_, _, _, _)
BlockSetAll(m, pts, i, c) ==
  IF i > Len(pts) THEN m
  ELSE BlockSetAll(BlockSetMap(m, pts[i][1], pts[i][2], c), pts, i + 1, c)
\* Canvas::line
BlockLineMap(m, x1, y1, x2, y2, c) ==
  BlockSetAll(m, BlockLineVec(x1, y1, x2, y2), 1, c)

\* ---------------------------------------------------------- Braille canvas
PIXEL_MAP == << <<1, 8>>, <<2, 16>>, <<4, 32>>, <<64, 128>> >>
\* PIXEL_MAP[y % 4][x % 2], Rust indices from 0
PixelMapAt(x, y) == PIXEL_MAP[(y % 4) + 1][(x % 2) + 1]

\* bit k of a mask, and the bitwise operators on the masks' eight bits
BitAt(n, k) == (n \div (2 ^ k)) % 2
\* a & b
BitAnd(a, b) ==
  BitAt(a, 0) * BitAt(b, 0) + 2 * BitAt(a, 1) * BitAt(b, 1)
  + 4 * BitAt(a, 2) * BitAt(b, 2) + 8 * BitAt(a, 3) * BitAt(b, 3)
  + 16 * BitAt(a, 4) * BitAt(b, 4) + 32 * BitAt(a, 5) * BitAt(b, 5)
  + 64 * BitAt(a, 6) * BitAt(b, 6) + 128 * BitAt(a, 7) * BitAt(b, 7)
\* a | b,  a & !b,  a ^ b
BitOr(a, b) == a + b - BitAnd(a, b)
BitAndNot(a, b) == a - BitAnd(a, b)
BitXor(a, b) == a + b - 2 * BitAnd(a, b)

\* the entry() match of set/unset/toggle: a vacant cell is inserted as 0
DotEntry(m, x, y) ==
  LET key == <<x \div 2, y \div 4>>
  IN  IF key \in DOMAIN m THEN m ELSE Put(m, key, 0)
\* Canvas::set, Canvas::unset, Canvas::toggle
DotSetMap(m, x, y) ==
  LET key == <<x \div 2, y \div 4>>
      m1 == DotEntry(m, x, y)
  IN  Put(m1, key, BitOr(m1[key], PixelMapAt(x, y)))
DotUnsetMap(m, x, y) ==
  LET key == <<x \div 2, y \div 4>>
      m1 == DotEntry(m, x, y)
  IN  Put(m1, key, BitAndNot(m1[key], PixelMapAt(x, y)))
DotToggleMap(m, x, y) ==
  LET key == <<x \div 2, y \div 4>>
      m1 == DotEntry(m, x, y)
  IN  Put(m1, key, BitXor(m1[key], PixelMapAt(x, y)))

\* Canvas::get: (col, row) = (x / 2, y / 4), looked up as (row, col)
DotGetValue(m, x, y) ==
  LET dot_index == PixelMapAt(x, y)
      col == x \div 2
      row == y \div 4
  IN  IF <<row, col>> \notin DOMAIN m THEN FALSE
      ELSE BitAnd(m[<<row, col>>], dot_index) # 0

\* Canvas::rows: one code point per cell; Canvas::frame joins with "\n"
Space == 32
Newline == 10
BrailleBase == 10240
DotMaxRow(m, w) == Max(w, SetMax({k[1] : k \in DOMAIN m}))
DotMaxCol(m, h) == Max(h, SetMax({k[2] : k \in DOMAIN m}))
DotRowsExclusive(m, w, h) ==
  [y \in 1..DotMaxCol(m, h) |->
     [x \in 1..DotMaxRow(m, w) |->
        LET char == IF <<x - 1, y - 1>> \in DOMAIN m THEN m[<<x - 1, y - 1>>]
                    ELSE 0
        IN  IF char = 0 THEN Space ELSE BrailleBase + char]]
DotRows(m, w, h) ==
  [y \in 1..(DotMaxCol(m, h) + 1) |->
     [x \in 1..(DotMaxRow(m, w) + 1) |->
        LET char == IF <<x - 1, y - 1>> \in DOMAIN m THEN m[<<x - 1, y - 1>>]
                    ELSE 0
        IN  IF char = 0 THEN Space ELSE BrailleBase + char]]
DotFrame(m, w, h) == Join(DotRows(m, w, h), <<Newline>>)

\* Canvas::line_vec of braille.rs
DotLineVecShort(x1, y1, x2, y2) ==
  LET xdiff == Max(x1, x2) - Min(x1, x2)
      ydiff == Max(y1, y2) - Min(y1, y2)
      xdir == IF x1 <= x2 THEN 1 ELSE -1
      ydir == IF y1 <= y2 THEN 1 ELSE -1
      r == Max(xdiff, ydiff)
  IN  [j \in 1..Max(r, 1) |->
         LET i == j - 1
             y == IF ydiff # 0 THEN y1 + ((i * ydiff) \div r) * ydir ELSE y1
             x == IF xdiff # 0 THEN x1 + ((i * xdiff) \div r) * xdir ELSE x1
         IN  <<x, y>>]
DotLineVec(x1, y1, x2, y2) ==
  LET xdiff == Max(x1, x2) - Min(x1, x2)
      ydiff == Max(y1, y2) - Min(y1, y2)
      xdir == IF x1 <= x2 THEN 1 ELSE -1
      ydir == IF y1 <= y2 THEN 1 ELSE -1
      r == Max(xdiff, ydiff)
  IN  [j \in 1..(r + 1) |->
         LET i == j - 1
             y == IF ydiff # 0 THEN y1 + ((i * ydiff) \div r) * ydir ELSE y1
             x == IF xdiff # 0 THEN x1 + ((i * xdiff) \div r) * xdir ELSE x1
         IN  <<x, y>>]

RECURSIVE DotSetAll(_, _, _)
DotSetAll(m, pts, i) ==
  IF i > Len(pts) THEN m
  ELSE DotSetAll(DotSetMap(m, pts[i][1], pts[i][2]), pts, i + 1)
\* Canvas::line
DotLineMap(m, x1, y1, x2, y2) == DotSetAll(m, DotLineVec(x1, y1, x2, y2), 1)

\* ------------------------------------------------------------------ Turtle
\* f32::round of a number of halves: to the nearest integer, ties away from 0
RoundHalves(v) == IF v >= 0 THEN (v + 1) \div 2 ELSE -((1 - v) \div 2)
\* cmp::max(0, v.round() as isize) as usize
ClampRound(v) == Max(0, RoundHalves(v))
\* degrees_to_radians(deg).cos() and .sin(), deg a multiple of 90
CosDeg(deg) == <<1, 0, -1, 0>>[((deg % 360) \div 90) + 1]
SinDeg(deg) == <<0, 1, 0, -1>>[((deg % 360) \div 90) + 1]

\* Turtle::teleport on t = [x, y, brush, cvs]: the turtle afterwards
TeleportAlwaysDraws(t, x, y) ==
  [t EXCEPT !.cvs = DotLineMap(t.cvs, ClampRound(t.x), ClampRound(t.y),
                               ClampRound(x), ClampRound(y)),
            !.x = x, !.y = y]
TurtleTeleport(t, x, y) ==
  [t EXCEPT !.cvs = IF t.brush
                    THEN DotLineMap(t.cvs, ClampRound(t.x), ClampRound(t.y),
                                    ClampRound(x), ClampRound(y))
                    ELSE t.cvs,
            !.x = x, !.y = y]
\* Turtle::forward
TurtleForward(t, rot, dist) ==
  LET x == t.x + CosDeg(rot) * dist
      y == t.y + SinDeg(rot) * dist
  IN  TurtleTeleport(t, x, y)

\* ------------------------------------------------------------- the state
\* last: the operation just made, whether it returned ("ok") or panicked, and
\* the number of cells it removed from the map
Op(op, res, removed) == [op |-> op, res |-> res, removed |-> removed]
Running == last.res = "ok" /\ nops < MaxOps
\* hi: the largest cell column and row written since the last clear
Grown(cells) ==
  <<Max(hi[1], SetMax({k[1] : k \in cells})),
    Max(hi[2], SetMax({k[2] : k \in cells}))>>

Xs == 0..MaxX
Ys == 0..MaxY
BXs == 0..MaxBX
BYs == 0..MaxBY
LineXs == {0, MaxLine}
\* the (fg, bg) pairs text() is given
TextInks == {<<Red, Black>>, <<Black, Red>>}
Texts == {[i \in 1..n |-> "a"] : n \in 0..MaxText}

TurtleIdle == tx = 0 /\ ty = 0 /\ brush = TRUE /\ rotation = 0
LineIdle == ends = <<0, 0, 0, 0>> /\ bvec = <<>> /\ dvec = <<>> /\ rvec = <<>>
TurtleVars == <<tx, ty, brush, rotation>>
LineVars == <<ends, bvec, dvec, rvec>>

\* a canvas of either kind, fresh from Canvas::new(w, h)
Init ==
  /\ kind \in {"block", "dot"}
  /\ \E w \in 0..MaxW, h \in 0..MaxH :
       /\ width = CanvasNew(w, h).width
       /\ height = CanvasNew(w, h).height
  /\ blocks = EmptyMap
  /\ chars = EmptyMap
  /\ last = Op("new", "ok", 0)
  /\ nops = 0
  /\ hi = <<0, 0>>
  /\ TurtleIdle
  /\ LineIdle

\* ----------------------------------------------- block canvas operations
BlockStep(op) ==
  /\ kind = "block"
  /\ Running
  /\ nops' = nops + 1
  /\ last' = op
  /\ UNCHANGED <<kind, chars, width, height, TurtleVars, LineVars>>

BlockClear ==
  /\ BlockStep(Op("clear", "ok", Cardinality(DOMAIN blocks)))
  /\ blocks' = HashMapClear(blocks)
  /\ hi' = <<0, 0>>

BlockText(x, y, fg, bg, s) ==
  /\ BlockStep(Op("text", "ok", 0))
  /\ blocks' = BlockTextMap(blocks, x, y, fg, bg, s, 0)
  /\ hi' = Grown({<<x + i, y \div 2>> : i \in 0..(Len(s) - 1)})

BlockSet(x, y, c) ==
  /\ BlockStep(Op("set", "ok", 0))
  /\ blocks' = BlockSetMap(blocks, x, y, c)
  /\ hi' = Grown({<<x, y \div 2>>})

BlockUnset(x, y) ==
  /\ BlockStep(Op("unset", IF BlockUnsetPanics(blocks, x, y) THEN "panic" ELSE "ok", 0))
  /\ blocks' = BlockUnsetMap(blocks, x, y)
  /\ hi' = Grown({<<x, y \div 2>>})

BlockGet(x, y) ==
  /\ BlockStep(Op("get", IF BlockGetPanics(blocks, x, y) THEN "panic" ELSE "ok", 0))
  /\ UNCHANGED <<blocks, hi>>

BlockRowsCall ==
  /\ BlockStep(Op("rows", "ok", 0))
  /\ UNCHANGED <<blocks, hi>>

BlockLine(x1, y1, x2, y2, c) ==
  /\ BlockStep(Op("line", "ok", 0))
  /\ blocks' = BlockLineMap(blocks, x1, y1, x2, y2, c)
  /\ hi' = Grown({<<q[1], q[2] \div 2>> : q \in Range(BlockLineVec(x1, y1, x2, y2))})

\* --------------------------------------------- Braille canvas operations
DotStep(op) ==
  /\ kind = "dot"
  /\ Running
  /\ nops' = nops + 1
  /\ last' = op
  /\ UNCHANGED <<kind, blocks, width, height, TurtleVars, LineVars>>

DotClear ==
  /\ DotStep(Op("clear", "ok", Cardinality(DOMAIN chars)))
  /\ chars' = HashMapClear(chars)
  /\ hi' = <<0, 0>>

DotSet(x, y) ==
  /\ DotStep(Op("set", "ok", 0))
  /\ chars' = DotSetMap(chars, x, y)
  /\ hi' = Grown({<<x \div 2, y \div 4>>})

DotUnset(x, y) ==
  /\ DotStep(Op("unset", "ok", 0))
  /\ chars' = DotUnsetMap(chars, x, y)
  /\ hi' = Grown({<<x \div 2, y \div 4>>})

DotToggle(x, y) ==
  /\ DotStep(Op("toggle", "ok", 0))
  /\ chars' = DotToggleMap(chars, x, y)
  /\ hi' = Grown({<<x \div 2, y \div 4>>})

DotGet(x, y) ==
  /\ DotStep(Op("get", "ok", 0))
  /\ UNCHANGED <<chars, hi>>

DotRowsCall ==
  /\ DotStep(Op("rows", "ok", 0))
  /\ UNCHANGED <<chars, hi>>

DotLine(x1, y1, x2, y2) ==
  /\ DotStep(Op("line", "ok", 0))
  /\ chars' = DotLineMap(chars, x1, y1, x2, y2)
  /\ hi' = Grown({<<q[1] \div 2, q[2] \div 4>> : q \in Range(DotLineVec(x1, y1, x2, y2))})

Next ==
  \/ BlockClear
  \/ \E x \in BXs, y \in BYs, ink \in TextInks, s \in Texts :
       BlockText(x, y, ink[1], ink[2], s)
  \/ \E x \in BXs, y \in BYs, c \in Palette : BlockSet(x, y, c)
  \/ \E x \in BXs, y \in BYs : BlockUnset(x, y)
  \/ \E x \in BXs, y \in BYs : BlockGet(x, y)
  \/ BlockRowsCall
  \/ \E x1 \in LineXs, y1 \in LineXs, x2 \in LineXs, y2 \in LineXs, c \in Palette :
       BlockLine(x1, y1, x2, y2, c)
  \/ DotClear
  \/ \E x \in Xs, y \in Ys : DotSet(x, y)
  \/ \E x \in Xs, y \in Ys : DotUnset(x, y)
  \/ \E x \in Xs, y \in Ys : DotToggle(x, y)
  \/ \E x \in Xs, y \in Ys : DotGet(x, y)
  \/ DotRowsCall
  \/ \E x1 \in LineXs, y1 \in LineXs, x2 \in LineXs, y2 \in LineXs :
       DotLine(x1, y1, x2, y2)

Spec == Init /\ [][Next]_vars

\* ------------------------------------------------------ Turtle operations
\* Turtle::new(x, y), whose canvas is Canvas::new(0, 0)
InitTurtle ==
  /\ kind = "turtle"
  /\ width = CanvasNew(0, 0).width
  /\ height = CanvasNew(0, 0).height
  /\ blocks = EmptyMap
  /\ chars = EmptyMap
  /\ last = Op("new", "ok", 0)
  /\ nops = 0
  /\ hi = <<0, 0>>
  /\ tx \in -MaxStart..MaxStart
  /\ ty \in -MaxStart..MaxStart
  /\ brush = TRUE
  /\ rotation = 0
  /\ LineIdle

\* the Turtle's operations also leave their arguments in last: x and y of
\* teleport(x, y); the distance or angle (as x) of forward, back, right, left
TurtleOp(op, x, y) == [op |-> op, res |-> "ok", removed |-> 0, x |-> x, y |-> y]
TurtleStep(op) ==
  /\ kind = "turtle"
  /\ Running
  /\ nops' = nops + 1
  /\ last' = op
  /\ UNCHANGED <<kind, blocks, hi, LineVars>>

TurtleRec == [x |-> tx, y |-> ty, brush |-> brush, cvs |-> chars]
TurtleBecomes(t) ==
  /\ tx' = t.x
  /\ ty' = t.y
  /\ brush' = t.brush
  /\ chars' = t.cvs

TurtleWidth(w) ==
  /\ TurtleStep(TurtleOp("width", w, 0))
  /\ width' = w
  /\ UNCHANGED <<height, chars, TurtleVars>>

TurtleHeight(h) ==
  /\ TurtleStep(TurtleOp("height", h, 0))
  /\ height' = h
  /\ UNCHANGED <<width, chars, TurtleVars>>

Up ==
  /\ TurtleStep(TurtleOp("up", 0, 0))
  /\ brush' = FALSE
  /\ UNCHANGED <<width, height, chars, tx, ty, rotation>>

Down ==
  /\ TurtleStep(TurtleOp("down", 0, 0))
  /\ brush' = TRUE
  /\ UNCHANGED <<width, height, chars, tx, ty, rotation>>

Toggle ==
  /\ TurtleStep(TurtleOp("toggle", 0, 0))
  /\ brush' = ~brush
  /\ UNCHANGED <<width, height, chars, tx, ty, rotation>>

Forward(dist) ==
  /\ TurtleStep(TurtleOp("forward", dist, 0))
  /\ TurtleBecomes(TurtleForward(TurtleRec, rotation, dist))
  /\ UNCHANGED <<width, height, rotation>>

Back(dist) ==
  /\ TurtleStep(TurtleOp("back", dist, 0))
  /\ TurtleBecomes(TurtleForward(TurtleRec, rotation, -dist))
  /\ UNCHANGED <<width, height, rotation>>

Teleport(x, y) ==
  /\ TurtleStep(TurtleOp("teleport", x, y))
  /\ TurtleBecomes(TurtleTeleport(TurtleRec, x, y))
  /\ UNCHANGED <<width, height, rotation>>

Right(angle) ==
  /\ TurtleStep(TurtleOp("right", angle, 0))
  /\ rotation' = rotation + angle
  /\ UNCHANGED <<width, height, chars, tx, ty, brush>>

Left(angle) ==
  /\ TurtleStep(TurtleOp("left", angle, 0))
  /\ rotation' = rotation - angle
  /\ UNCHANGED <<width, height, chars, tx, ty, brush>>

TurtleFrame ==
  /\ TurtleStep(TurtleOp("frame", 0, 0))
  /\ UNCHANGED <<width, height, chars, TurtleVars>>

Positions == -MaxPos..MaxPos
Dists == -MaxDist..MaxDist
Angles == {90 * k : k \in 1..MaxTurn}

NextTurtle ==
  \/ \E w \in 0..MaxCells : TurtleWidth(w)
  \/ \E h \in 0..MaxCells : TurtleHeight(h)
  \/ Up
  \/ Down
  \/ Toggle
  \/ \E d \in Dists : Forward(d)
  \/ \E d \in Dists : Back(d)
  \/ \E x \in Positions, y \in Positions : Teleport(x, y)
  \/ \E a \in Angles : Right(a)
  \/ \E a \in Angles : Left(a)
  \/ TurtleFrame

SpecTurtle == InitTurtle /\ [][NextTurtle]_vars

\* ------------------------------------------------------- the rasterizer
\* line_vec and line of both canvases, on fresh canvases, for the endpoints
\* ends = <<x1, y1, x2, y2>>
InitLine ==
  /\ kind = "line"
  /\ width = 0
  /\ height = 0
  /\ blocks = EmptyMap
  /\ chars = EmptyMap
  /\ last = Op("new", "ok", 0)
  /\ nops = 0
  /\ hi = <<0, 0>>
  /\ TurtleIdle
  /\ ends \in (0..MaxCoord) \X (0..MaxCoord) \X (0..MaxCoord) \X (0..MaxCoord)
  /\ bvec = <<>>
  /\ dvec = <<>>
  /\ rvec = <<>>

LineStep ==
  /\ kind = "line"
  /\ UNCHANGED <<kind, width, height, last, nops, hi, TurtleVars, ends>>

BlockLineVecCall ==
  /\ LineStep
  /\ bvec = <<>>
  /\ bvec' = BlockLineVec(ends[1], ends[2], ends[3], ends[4])
  /\ UNCHANGED <<dvec, rvec, blocks, chars>>

BlockLineVecReversedCall ==
  /\ LineStep
  /\ rvec = <<>>
  /\ rvec' = BlockLineVec(ends[3], ends[4], ends[1], ends[2])
  /\ UNCHANGED <<bvec, dvec, blocks, chars>>

DotLineVecCall ==
  /\ LineStep
  /\ dvec = <<>>
  /\ dvec' = DotLineVec(ends[1], ends[2], ends[3], ends[4])
  /\ UNCHANGED <<bvec, rvec, blocks, chars>>

BlockLineCall ==
  /\ LineStep
  /\ blocks = EmptyMap
  /\ blocks' = BlockLineMap(blocks, ends[1], ends[2], ends[3], ends[4], Red)
  /\ UNCHANGED <<bvec, dvec, rvec, chars>>

DotLineCall ==
  /\ LineStep
  /\ chars = EmptyMap
  /\ chars' = DotLineMap(chars, ends[1], ends[2], ends[3], ends[4])
  /\ UNCHANGED <<bvec, dvec, rvec, blocks>>

NextLine ==
  \/ BlockLineVecCall
  \/ BlockLineVecReversedCall
  \/ DotLineVecCall
  \/ BlockLineCall
  \/ DotLineCall

SpecLine == InitLine /\ [][NextLine]_vars

\* ================================================================ claims
\* what the claims read off a state, stated without the code's lookups
\* the colour a block cell stores for pixel (x, y); Black where no cell is
BlockStored(m, x, y) ==
  IF <<x, y \div 2>> \notin DOMAIN m THEN Black
  ELSE IF m[<<x, y \div 2>>].tag # "Pair" THEN Black
  ELSE IF y % 2 = 0 THEN m[<<x, y \div 2>>].cp.first
  ELSE m[<<x, y \div 2>>].cp.second
\* whether the Braille cell of pixel (x, y) has the pixel's dot raised
Lit(m, x, y) ==
  /\ <<x \div 2, y \div 4>> \in DOMAIN m
  /\ BitAt(m[<<x \div 2, y \div 4>>],
           CHOOSE k \in 0..7 : 2 ^ k = PIXEL_MAP[(y % 4) + 1][(x % 2) + 1]) = 1
\* the pixels the claims look at
BlockWindow == (0..(MaxBX + MaxText + 1)) \X (0..(MaxBY + 2))
DotWindow == (0..(MaxX + 2)) \X (0..(MaxY + 4))
TurtleReach == ((MaxPos + MaxOps * MaxDist) \div 2) + 1
TurtleWindow == (0..TurtleReach) \X (0..TurtleReach)
\* rendered size: <<number of rows, the set of the rows' cell counts>>
BlockDims(m, w, h) ==
  LET rows == BlockRows(m, w, h)
  IN  <<Len(rows), {(Len(rows[y]) - 4) \div 13 : y \in 1..Len(rows)}>>
DotDims(m, w, h) ==
  LET rows == DotRows(m, w, h)
  IN  <<Len(rows), {Len(rows[y]) : y \in 1..Len(rows)}>>
Dims == IF kind = "block" THEN BlockDims(blocks, width, height)
        ELSE DotDims(chars, width, height)
Writes == {"set", "unset", "toggle", "text", "line"}

\* C1: on a fresh BlockCanvas, set(x, y, c) followed by get(x, y) returns c,
\* for every pixel (x, y) and colour c.
C1_FreshSetThenGet ==
  [][(kind = "block" /\ blocks = EmptyMap) =>
       \A x \in BXs, y \in BYs, c \in Palette :
         BlockSet(x, y, c) =>
           /\ ~BlockGetPanics(blocks', x, y)
           /\ BlockGetValue(blocks', x, y) = c]_vars

\* C2: on a DotCanvas in any reachable state, set(x, y) followed by get(x, y)
\* returns true, and unset(x, y) followed by get(x, y) returns false.
C2_DotSetUnsetThenGet ==
  [][kind = "dot" =>
       \A x \in Xs, y \in Ys :
         /\ DotSet(x, y) => DotGetValue(chars', x, y) = TRUE
         /\ DotUnset(x, y) => DotGetValue(chars', x, y) = FALSE]_vars

\* C3: on a BlockCanvas, unset(x, y) on an absent cell completes without a
\* failure, and get(x, y) then returns Black.
C3_UnsetAbsentCompletes ==
  [][kind = "block" =>
       \A x \in BXs, y \in BYs :
         (BlockUnset(x, y) /\ <<x, y \div 2>> \notin DOMAIN blocks) =>
           /\ last'.res = "ok"
           /\ ~BlockGetPanics(blocks', x, y)
           /\ BlockGetValue(blocks', x, y) = Black]_vars

\* C4: a BlockCanvas call that fails (panics) leaves the cell grid exactly as
\* it was before the call.
C4_FailureLeavesGrid ==
  [][(kind = "block" /\ last'.res = "panic") => blocks' = blocks]_vars

\* C5: after clear(), on both canvases, get returns the default (Black /
\* false) at every pixel, rows() has height + 1 rows of width + 1 cells, as a
\* fresh canvas has, and width and height are what they were.
C5_ClearResets ==
  [][/\ width' = width /\ height' = height
     /\ (last'.op = "clear" /\ kind = "block") =>
          /\ \A q \in BlockWindow :
               /\ ~BlockGetPanics(blocks', q[1], q[2])
               /\ BlockGetValue(blocks', q[1], q[2]) = Black
          /\ BlockDims(blocks', width', height') = <<height + 1, {width + 1}>>
     /\ (last'.op = "clear" /\ kind = "dot") =>
          /\ \A q \in DotWindow : DotGetValue(chars', q[1], q[2]) = FALSE
          /\ DotDims(chars', width', height') = <<height + 1, {width + 1}>>]_vars
\* clear() has just removed a cell of a canvas whose writes had grown it
C5_Witness ==
  /\ last.op = "clear"
  /\ last.removed > 0
  /\ kind = "dot"
  /\ nops = 2
  /\ width = 0

\* the state after DotCanvas::new(2, 4) and set(0, 0)
C7_NewSet00 ==
  /\ kind = "dot"
  /\ nops = 1
  /\ last.op = "set"
  /\ width = CanvasNew(2, 4).width
  /\ height = CanvasNew(2, 4).height
  /\ DOMAIN chars = {<<0, 0>>}
  /\ \A q \in DotWindow : Lit(chars, q[1], q[2]) <=> q = <<0, 0>>
\* C7 as stated: after DotCanvas::new(2, 4) and set(0, 0), frame() is one row
\* of one cell, the Braille character U+2800 + bit(0, 0).
C7_SingleCellFrame ==
  C7_NewSet00 => DotFrame(chars, width, height) = <<BrailleBase + 1>>
\* C7 amended: after DotCanvas::new(2, 4) and set(0, 0), rows() is two rows of
\* two cells, U+2801 first and spaces elsewhere, and frame() joins them with a
\* newline.
C7_TwoByTwoFrame ==
  C7_NewSet00 =>
    /\ DotRows(chars, width, height)
         = << <<BrailleBase + 1, Space>>, <<Space, Space>> >>
    /\ DotFrame(chars, width, height)
         = <<BrailleBase + 1, Space, Newline, Space, Space>>
C7_Witness == C7_NewSet00

\* C10: rows() has max(height, largest cell row written since the last
\* clear) + 1 rows, each of max(width, largest cell column written since the
\* last clear) + 1 cells; no set/unset/toggle/text/line shrinks the rendered
\* size, and only clear() does.
C10_SizeIsBound ==
  Dims = <<Max(height, hi[2]) + 1, {Max(width, hi[1]) + 1}>>
\* the size C10_SizeIsBound equates the rendering with: <<rows, cells>>
C10_Size == <<Max(height, hi[2]) + 1, Max(width, hi[1]) + 1>>
C10_NoShrink ==
  /\ last'.op \in Writes =>
       (C10_Size'[1] >= C10_Size[1] /\ C10_Size'[2] >= C10_Size[2])
  /\ (C10_Size'[1] < C10_Size[1] \/ C10_Size'[2] < C10_Size[2]) =>
       last'.op = "clear"
C10_RenderedSize == []C10_SizeIsBound /\ [][C10_NoShrink]_vars
\* a write beyond the configured size has grown the rendering
C10_Witness ==
  /\ last.op \in Writes
  /\ hi[1] > width
  /\ hi[2] > height
  /\ Dims = <<hi[2] + 1, {hi[1] + 1}>>

\* the endpoints of the rasterizer specification, and the interpolation
\* x1 + dirx * floor(i * dx / r), y1 + diry * floor(i * dy / r)
Interpolated(x1, y1, x2, y2, i) ==
  LET dx == Abs(x2 - x1)
      dy == Abs(y2 - y1)
      dirx == IF x2 >= x1 THEN 1 ELSE -1
      diry == IF y2 >= y1 THEN 1 ELSE -1
      r == Max(dx, dy)
  IN  IF r = 0 THEN <<x1, y1>>
      ELSE <<x1 + dirx * ((i * dx) \div r), y1 + diry * ((i * dy) \div r)>>
InterpolatedLine(x1, y1, x2, y2) ==
  {Interpolated(x1, y1, x2, y2, i) : i \in 0..Max(Abs(x2 - x1), Abs(y2 - y1))}
EndsDx == Abs(ends[3] - ends[1])
EndsDy == Abs(ends[4] - ends[2])
LineWindow == (0..(MaxCoord + 1)) \X (0..(MaxCoord + 1))

\* C6 as stated: rasterizing (x1, y1) -> (x2, y2) and (x2, y2) -> (x1, y1)
\* gives the same set of points.
C6_ReversedSameSet ==
  (bvec # <<>> /\ rvec # <<>>) => Range(bvec) = Range(rvec)
\* C6 amended: the two sets of points are equal exactly when the segment is
\* horizontal, vertical or diagonal (dx = 0, dy = 0 or dx = dy).
C6_ReversedSameSetIffAligned ==
  (bvec # <<>> /\ rvec # <<>>) =>
    (Range(bvec) = Range(rvec)
       <=> (EndsDx = 0 \/ EndsDy = 0 \/ EndsDx = EndsDy))
\* both directions of a diagonal of length 3 are rasterized
C6_Witness ==
  /\ bvec # <<>>
  /\ rvec # <<>>
  /\ EndsDx = 3
  /\ EndsDy = 3
  /\ Range(bvec) = Range(rvec)

\* the turtle's coordinate v (in halves) as the pixel the draw call is given
DrawnAt(v) == IF v <= 0 THEN 0 ELSE IF v % 2 = 0 THEN v \div 2 ELSE (v + 1) \div 2
C8_Moved(nx, ny) ==
  LET pts == InterpolatedLine(DrawnAt(tx), DrawnAt(ty), DrawnAt(nx), DrawnAt(ny))
  IN  /\ tx' = nx
      /\ ty' = ny
      /\ ~brush => chars' = chars
      /\ brush =>
           \A q \in TurtleWindow :
             Lit(chars', q[1], q[2]) <=> (Lit(chars, q[1], q[2]) \/ q \in pts)
\* C8: teleport(newX, newY), and forward/back through it, moves the turtle to
\* the unclamped (newX, newY) whatever the brush; with the brush up the canvas
\* is unchanged, with the brush down the line between the rounded, clamped
\* old and new positions is drawn.
C8_TeleportMoves ==
  [][kind = "turtle" =>
       /\ last'.op = "teleport" => C8_Moved(last'.x, last'.y)
       /\ last'.op = "forward" =>
            C8_Moved(tx + CosDeg(rotation) * last'.x, ty + SinDeg(rotation) * last'.x)
       /\ last'.op = "back" =>
            C8_Moved(tx - CosDeg(rotation) * last'.x, ty - SinDeg(rotation) * last'.x)]_vars
\* a teleport with the brush down to (0.5, -0.5): drawn at pixel (1, 0)
C8_Witness ==
  /\ kind = "turtle"
  /\ last.op = "teleport"
  /\ brush
  /\ tx = 1
  /\ ty = -1
  /\ Lit(chars, 1, 0)

\* C9: line_vec of both canvases is the sequence of r + 1 points
\* (x1 + dirx * floor(i * dx / r), y1 + diry * floor(i * dy / r)), i = 0..r,
\* from (x1, y1) to (x2, y2); a zero-length line is the single point
\* (x1, y1) and line() then touches exactly one pixel; the two canvases'
\* sequences are the same.
C9_LineVecIsInterpolation ==
  LET x1 == ends[1]
      y1 == ends[2]
      x2 == ends[3]
      y2 == ends[4]
      r == Max(EndsDx, EndsDy)
      Good(v) ==
        /\ Len(v) = r + 1
        /\ \A i \in 0..r : v[i + 1] = Interpolated(x1, y1, x2, y2, i)
        /\ v[1] = <<x1, y1>>
        /\ v[r + 1] = <<x2, y2>>
        /\ r = 0 => v = << <<x1, y1>> >>
  IN  /\ bvec # <<>> => Good(bvec)
      /\ dvec # <<>> => Good(dvec)
      /\ (bvec # <<>> /\ dvec # <<>>) => bvec = dvec
      /\ (r = 0 /\ chars # EmptyMap) =>
           /\ {q \in LineWindow : Lit(chars, q[1], q[2])} = {<<x1, y1>>}
           /\ Cardinality(DOMAIN chars) = 1
      /\ (r = 0 /\ blocks # EmptyMap) =>
           /\ {q \in LineWindow : BlockStored(blocks, q[1], q[2]) # Black}
                = {<<x1, y1>>}
           /\ Cardinality(DOMAIN blocks) = 1
\* both canvases have rasterized a shallow line running right to left
C9_Witness ==
  /\ bvec # <<>>
  /\ dvec # <<>>
  /\ ends = <<3, 0, 0, 2>>
  /\ bvec = << <<3, 0>>, <<2, 0>>, <<1, 1>>, <<0, 2>> >>

====
